---- MODULE Spec2Model ----
(***************************************************************************)
(* Breach-proof password orchestration (Pythia): the proof-key registry    *)
(* (ProofKeys), the update-token parser and the three operations of the    *)
(* Pythia class (create / verify / update), as state machines.             *)
(*                                                                         *)
(* Text is a sequence of one-character strings, so that split('.') and     *)
(* Number(...) are computed, not assumed.  A JavaScript number is a record *)
(* [isNaN, n]; strict equality (===, !==) is StrictEquals, under which NaN *)
(* equals nothing, itself included.                                        *)
(***************************************************************************)
EXTENDS Integers, Sequences, FiniteSets, TLC

VARIABLES config, proofKeys, lookup, calls, store

vars == <<config, proofKeys, lookup, calls, store>>

(***************************************************************************)
(* Bounds of the model.                                                    *)
(***************************************************************************)
MaxKeys == 2
MaxCalls == 1
MaxStore == 2
MaxConcurrent == 2

(***************************************************************************)
(* JavaScript values.                                                      *)
(***************************************************************************)
Undefined == [kind |-> "undefined"]
NaN == [isNaN |-> TRUE, n |-> 0]
Num(k) == [isNaN |-> FALSE, n |-> k]

StrictEquals(a, b) == ~a.isNaN /\ ~b.isNaN /\ a.n = b.n

IsDigit(c) == c \in {"0", "1", "2", "3", "4", "5", "6", "7", "8", "9"}

DigitValue(c) ==
  CASE c = "0" -> 0 [] c = "1" -> 1 [] c = "2" -> 2 [] c = "3" -> 3
    [] c = "4" -> 4 [] c = "5" -> 5 [] c = "6" -> 6 [] c = "7" -> 7
    [] c = "8" -> 8 [] OTHER -> 9

RECURSIVE DecimalValue(_, _)
DecimalValue(chars, acc) ==
  IF chars = <<>> THEN acc
  ELSE DecimalValue(Tail(chars), 10 * acc + DigitValue(Head(chars)))

\* Number(text) over the model's alphabet: "" is 0, a digit string is its
\* decimal value, anything else is NaN.
Number(chars) ==
  IF chars = <<>> THEN Num(0)
  ELSE IF \A i \in 1..Len(chars) : IsDigit(chars[i])
       THEN Num(DecimalValue(chars, 0))
       ELSE NaN

RECURSIVE SplitRec(_, _, _)
SplitRec(chars, cur, acc) ==
  IF chars = <<>> THEN Append(acc, cur)
  ELSE IF Head(chars) = "."
       THEN SplitRec(Tail(chars), <<>>, Append(acc, cur))
       ELSE SplitRec(Tail(chars), Append(cur, Head(chars)), acc)

\* text.split('.')
Split(chars) == SplitRec(chars, <<>>, <<>>)

IsBase64Char(c) == c \in {"A", "B", "C", "T", "x", "0", "1", "2", "3", "4",
                          "5", "6", "7", "8", "9"}

\* Buffer.from(text, 'base64'): the bytes the base64 characters stand for;
\* characters outside the alphabet carry no bytes.
Base64Decode(chars) ==
  [kind |-> "bytes", b64 |-> SelectSeq(chars, IsBase64Char)]

(***************************************************************************)
(* ProofKeys (the registry).                                               *)
(***************************************************************************)
Null == [kind |-> "null"]
StringArg(s) == [kind |-> "string", text |-> s]
ArrayArg(a) == [kind |-> "array", items |-> a]

\* toArray(arg): null stays null, an array stays, anything else is wrapped.
ToArray(arg) ==
  IF arg.kind = "null" THEN arg
  ELSE IF arg.kind = "array" THEN arg
  ELSE ArrayArg(<<arg.text>>)

\* A check of the field count that lets longer descriptors through.
ParseProofKeyAtLeast(str) ==
  LET parts == Split(str)
  IN  ~(Len(parts) < 3 \/ parts[1] # <<"P", "K">>)

ParseProofKeyOk(str) ==
  LET parts == Split(str)
  IN  ~(Len(parts) # 3 \/ parts[1] # <<"P", "K">>)

\* parseProofKey(str), for a string that passes the check: {version, data}.
ParseProofKey(str) ==
  LET parts == Split(str)
  IN  [version |-> Number(parts[2]), data |-> Base64Decode(parts[3])]

RegistryError(msg) == [status |-> "failed", keys |-> <<>>, error |-> msg]

\* new ProofKeys(arg): the registry, or the error the constructor throws.
ProofKeysCtor(arg) ==
  LET arr == ToArray(arg)
  IN  IF arr.kind = "null" \/ Len(arr.items) = 0
      THEN RegistryError("Parameter proofKeys must not be empty")
      ELSE IF \E i \in 1..Len(arr.items) : ~ParseProofKeyOk(arr.items[i])
           THEN RegistryError("ProofKey string is invalid")
           ELSE [status |-> "built",
                 keys |-> [i \in 1..Len(arr.items) |-> ParseProofKey(arr.items[i])],
                 error |-> ""]

NoProofKeyOfVersion == "No proof key exists of version"

Thrown(msg) == [ok |-> FALSE, error |-> msg, value |-> Undefined]
Returned(v) == [ok |-> TRUE, error |-> "", value |-> v]

\* currentKey()
CurrentKey(keys) ==
  IF Len(keys) = 0 THEN Thrown("No proof key exists")
  ELSE Returned(keys[1])

\* A scan that lets the last match win.
FindLast(keys, version, i) ==
  LET matches == {j \in i..Len(keys) : StrictEquals(keys[j].version, version)}
  IN  IF matches = {} THEN Undefined
      ELSE keys[CHOOSE j \in matches : \A k \in matches : k <= j]

RECURSIVE Find(_, _, _)
Find(keys, version, i) ==
  IF i > Len(keys) THEN Undefined
  ELSE IF StrictEquals(keys[i].version, version) THEN keys[i]
       ELSE Find(keys, version, i + 1)

\* A lookup that falls back to the current key when no version matches.
ProofKeyOrCurrent(keys, version) ==
  IF \E i \in 1..Len(keys) : StrictEquals(keys[i].version, version)
  THEN Returned(keys[CHOOSE i \in 1..Len(keys) :
                       /\ StrictEquals(keys[i].version, version)
                       /\ \A j \in 1..(i - 1) :
                            ~StrictEquals(keys[j].version, version)])
  ELSE CurrentKey(keys)

\* proofKey(version)
ProofKey(keys, version) ==
  LET proofKey == Find(keys, version, 1)
  IN  IF proofKey = Undefined THEN Thrown(NoProofKeyOfVersion)
      ELSE Returned(proofKey)

(***************************************************************************)
(* The Crypto Engine and the Transformation Service, at their interface.   *)
(* A blinded password carries the password and the blinding secret; the    *)
(* service's transformation adds the salt and the epoch of the secret key  *)
(* it used; deblinding with the secret of the blinding removes the         *)
(* blinding and nothing else.                                              *)
(***************************************************************************)
ServiceEpochs == {1, 2}

\* The public key of the service's transformation key of an epoch.
TransformationPublicKey(epoch) ==
  IF epoch.isNaN THEN Undefined
  ELSE IF epoch.n = 1 THEN Base64Decode(<<"A">>)
  ELSE IF epoch.n = 2 THEN Base64Decode(<<"B">>)
  ELSE Undefined

\* dataToUint8Array(password, 'utf8')
DataToUint8Array(password) == [kind |-> "bytes", utf8 |-> password]

\* crypto.getRandomBytes(length)
GetRandomBytes(length, rnd) == [kind |-> "bytes", len |-> length, rnd |-> rnd]

\* pythiaCrypto.blind(password)
Blind(password, secret) ==
  [blindedPassword |-> [pw |-> password, blind |-> secret],
   blindingSecret |-> secret]

Transform(blindedPassword, salt, version) ==
  [pw |-> blindedPassword.pw, blind |-> blindedPassword.blind,
   salt |-> salt, epoch |-> version]

HonestProof(transformedPassword) ==
  [valueC |-> [kind |-> "C", of |-> transformedPassword],
   valueU |-> [kind |-> "U", of |-> transformedPassword]]

Corrupted == [kind |-> "corrupted"]

\* pythiaCrypto.verify(transformed, blinded, salt, proofKey, valueC, valueU)
Verify(transformedPassword, blindedPassword, salt, proofKey, valueC, valueU) ==
  /\ proofKey # Undefined
  /\ proofKey = TransformationPublicKey(transformedPassword.epoch)
  /\ transformedPassword.pw = blindedPassword.pw
  /\ transformedPassword.blind = blindedPassword.blind
  /\ transformedPassword.salt = salt
  /\ valueC = HonestProof(transformedPassword).valueC
  /\ valueU = HonestProof(transformedPassword).valueU

Garbage == [kind |-> "bytes", utf8 |-> "garbage"]

\* pythiaCrypto.deblind(transformedPassword, blindingSecret)
Deblind(transformedPassword, blindingSecret) ==
  [pw |-> IF transformedPassword.blind = blindingSecret
          THEN transformedPassword.pw ELSE Garbage,
   salt |-> transformedPassword.salt,
   epoch |-> transformedPassword.epoch,
   tokens |-> <<>>]

\* pythiaCrypto.updateDeblindedWithToken(deblindedPassword, token)
UpdateDeblindedWithToken(deblindedPassword, token) ==
  [deblindedPassword EXCEPT !.tokens = Append(@, token)]

\* constantTimeEqual(a, b)
ConstantTimeEqual(a, b) == a = b

\* new BreachProofPassword(salt, deblindedPassword, version)
BreachProofPassword(salt, deblindedPassword, version) ==
  [salt |-> salt, deblindedPassword |-> deblindedPassword, version |-> version]

\* obj.name in JavaScript: undefined when the object has no such property.
Field(obj, name) == IF name \in DOMAIN obj THEN obj[name] ELSE Undefined

\* The answers the Transformation Service can give to a request: the honest
\* one (when it holds a key of the requested epoch), the honest one with a
\* proof field corrupted or with the proof left out, or a failure.
HonestResponse(request) ==
  LET t == Transform(request.blindedPassword, request.salt, request.version)
  IN  [mode |-> "honest", ok |-> TRUE, transformedPassword |-> t,
       proof |-> IF request.includeProof = "true" THEN HonestProof(t)
                 ELSE Undefined]

ServiceKnows(request) ==
  ~request.version.isNaN /\ request.version.n \in ServiceEpochs

Failure ==
  [mode |-> "failure", ok |-> FALSE, transformedPassword |-> Undefined,
   proof |-> Undefined]

ServiceResponses(request) ==
  {Failure}
  \cup (IF ServiceKnows(request) THEN {HonestResponse(request)} ELSE {})
  \cup (IF ServiceKnows(request) /\ request.includeProof = "true"
        THEN { [HonestResponse(request) EXCEPT
                  !.mode = "corruptedC", !.proof.valueC = Corrupted],
               [HonestResponse(request) EXCEPT
                  !.mode = "corruptedU", !.proof.valueU = Corrupted],
               [HonestResponse(request) EXCEPT
                  !.mode = "noProof", !.proof = Undefined] }
        ELSE {})

(***************************************************************************)
(* The Pythia class.  A call is one invocation of create / verify /       *)
(* update: its arguments, its locals, the request it sent, the Crypto      *)
(* Engine invocations it made (in order) and how it ended.                 *)
(***************************************************************************)
SALT_BYTE_LENGTH == 32

ProofVerificationFailed == "Transformed password proof verification has failed"
UnexpectedVersion == "Unexpected breach-proof password version"
InvalidUpdateToken == "updateToken format is invalid"
UndefinedProperty == "TypeError: cannot read properties of undefined"
TransportFailure == "transformPassword request failed"

Pending == [kind |-> "pending", error |-> "", record |-> Undefined, result |-> ""]
Rejected(msg) == [kind |-> "error", error |-> msg, record |-> Undefined, result |-> ""]
ResolvedRecord(r) == [kind |-> "record", error |-> "", record |-> r, result |-> ""]
ResolvedBoolean(b) ==
  [kind |-> "boolean", error |-> "", record |-> Undefined,
   result |-> IF b THEN "true" ELSE "false"]

IdleCall ==
  [pc |-> "idle", op |-> "", password |-> "", breachProofPassword |-> Undefined,
   includeProof |-> "", updateToken |-> <<>>, salt |-> Undefined,
   blinding |-> Undefined, proofKey |-> Undefined, request |-> Undefined,
   sent |-> 0, response |-> Undefined, engine |-> <<>>, outcome |-> Pending]

BlindCall(myPassword) == [fn |-> "blind", password |-> myPassword]
VerifyCall(transformedPassword, blindedPassword, salt, proofKey, valueC, valueU) ==
  [fn |-> "verify", transformedPassword |-> transformedPassword,
   blindedPassword |-> blindedPassword, salt |-> salt, proofKey |-> proofKey,
   valueC |-> valueC, valueU |-> valueU]
DeblindCall(transformedPassword, blindingSecret) ==
  [fn |-> "deblind", transformedPassword |-> transformedPassword,
   blindingSecret |-> blindingSecret]
UpdateCall(deblindedPassword, token) ==
  [fn |-> "updateDeblindedWithToken", deblindedPassword |-> deblindedPassword,
   token |-> token]

\* The condition of the proof check, negated.
TruthyNegated(includeProof) == includeProof # "true"

\* if (includeProof) in verifyBreachProofPassword
Truthy(includeProof) == includeProof = "true"

\* The test of the proof result without its negation.
NotVerifiedInverted(verified) == verified

\* if (!verified)
NotVerified(verified) == ~verified

\* The request built from the whole blinding result, secret included.
VerifyRequestWithSecret(blinding, breachProofPassword, includeProof) ==
  [blindedPassword |-> blinding.blindedPassword,
   blindingSecret |-> blinding.blindingSecret,
   includeProof |-> includeProof,
   salt |-> breachProofPassword.salt,
   version |-> breachProofPassword.version]

\* The argument of transformPassword in verifyBreachProofPassword.
VerifyRequest(blinding, breachProofPassword, includeProof) ==
  [blindedPassword |-> blinding.blindedPassword,
   includeProof |-> includeProof,
   salt |-> breachProofPassword.salt,
   version |-> breachProofPassword.version]

\* The request built with a salt drawn anew instead of the call's salt.
CreateRequestOtherSalt(blinding, salt, latestProofKey) ==
  [blindedPassword |-> blinding.blindedPassword,
   salt |-> GetRandomBytes(SALT_BYTE_LENGTH, "other"),
   version |-> latestProofKey.version,
   includeProof |-> "true"]

\* The argument of transformPassword in createBreachProofPassword.
CreateRequest(blinding, salt, latestProofKey) ==
  [blindedPassword |-> blinding.blindedPassword,
   salt |-> salt,
   version |-> latestProofKey.version,
   includeProof |-> "true"]

\* The request is sent again when it fails.
AwaitRetried(call, response) == [call EXCEPT !.sent = 2]

\* The awaited transformPassword rejects: the call rejects with its error.
AwaitRejected(call, response) ==
  [call EXCEPT !.pc = "done", !.response = response,
               !.outcome = Rejected(TransportFailure)]

\* verifyBreachProofPassword, up to the await.
VerifyBegin(keys, password, breachProofPassword, includeProof, secret) ==
  LET myPassword == DataToUint8Array(password)
      blinding == Blind(myPassword, secret)
      looked == ProofKey(keys, breachProofPassword.version)
      base == [IdleCall EXCEPT !.op = "verify", !.password = password,
                 !.breachProofPassword = breachProofPassword,
                 !.includeProof = includeProof, !.blinding = blinding,
                 !.engine = <<BlindCall(myPassword)>>]
  IN  IF ~looked.ok
      THEN [base EXCEPT !.pc = "done", !.outcome = Rejected(looked.error)]
      ELSE [base EXCEPT !.pc = "awaiting", !.proofKey = looked.value,
              !.request = VerifyRequest(blinding, breachProofPassword,
                                        includeProof),
              !.sent = 1]

\* verifyBreachProofPassword, from the await on.
VerifyEnd(call, response) ==
  LET done == [call EXCEPT !.pc = "done", !.response = response]
      transformedPassword == response.transformedPassword
      proof == response.proof
      blindedPassword == call.blinding.blindedPassword
      salt == call.breachProofPassword.salt
      key == Field(call.proofKey, "key")
      compared ==
        LET deblindedPassword ==
              Deblind(transformedPassword, call.blinding.blindingSecret)
        IN  [engine |-> <<DeblindCall(transformedPassword,
                                      call.blinding.blindingSecret)>>,
             outcome |-> ResolvedBoolean(ConstantTimeEqual(deblindedPassword,
                           call.breachProofPassword.deblindedPassword))]
  IN  IF ~response.ok
      THEN AwaitRejected(call, response)
      ELSE IF Truthy(call.includeProof)
      THEN IF proof = Undefined
           THEN [done EXCEPT !.outcome = Rejected(UndefinedProperty)]
           ELSE IF NotVerified(Verify(transformedPassword, blindedPassword,
                                      salt, key, proof.valueC, proof.valueU))
           THEN [done EXCEPT
                   !.engine = Append(@, VerifyCall(transformedPassword,
                                blindedPassword, salt, key, proof.valueC,
                                proof.valueU)),
                   !.outcome = Rejected(ProofVerificationFailed)]
           ELSE [done EXCEPT
                   !.engine = Append(@, VerifyCall(transformedPassword,
                                blindedPassword, salt, key, proof.valueC,
                                proof.valueU)) \o compared.engine,
                   !.outcome = compared.outcome]
      ELSE [done EXCEPT !.engine = @ \o compared.engine,
                        !.outcome = compared.outcome]

\* createBreachProofPassword, up to the await.
CreateBegin(keys, password, rnd, secret) ==
  LET salt == GetRandomBytes(SALT_BYTE_LENGTH, rnd)
      myPassword == DataToUint8Array(password)
      blinding == Blind(myPassword, secret)
      latest == CurrentKey(keys)
      base == [IdleCall EXCEPT !.op = "create", !.password = password,
                 !.salt = salt, !.blinding = blinding,
                 !.engine = <<BlindCall(myPassword)>>]
  IN  IF ~latest.ok
      THEN [base EXCEPT !.pc = "done", !.outcome = Rejected(latest.error)]
      ELSE [base EXCEPT !.pc = "awaiting", !.proofKey = latest.value,
              !.request = CreateRequest(blinding, salt, latest.value),
              !.sent = 1]

\* createBreachProofPassword, from the await on.
CreateEnd(call, response) ==
  LET done == [call EXCEPT !.pc = "done", !.response = response]
      transformedPassword == response.transformedPassword
      proof == response.proof
      blindedPassword == call.blinding.blindedPassword
      key == Field(call.proofKey, "key")
  IN  IF ~response.ok
      THEN AwaitRejected(call, response)
      ELSE IF proof = Undefined
      THEN [done EXCEPT !.outcome = Rejected(UndefinedProperty)]
      ELSE IF NotVerified(Verify(transformedPassword, blindedPassword,
                                 call.salt, key, proof.valueC, proof.valueU))
      THEN [done EXCEPT
              !.engine = Append(@, VerifyCall(transformedPassword,
                           blindedPassword, call.salt, key, proof.valueC,
                           proof.valueU)),
              !.outcome = Rejected(ProofVerificationFailed)]
      ELSE LET deblindedPassword ==
                 Deblind(transformedPassword, call.blinding.blindingSecret)
           IN  [done EXCEPT
                  !.engine = @ \o <<VerifyCall(transformedPassword,
                                      blindedPassword, call.salt, key,
                                      proof.valueC, proof.valueU),
                                    DeblindCall(transformedPassword,
                                      call.blinding.blindingSecret)>>,
                  !.outcome = ResolvedRecord(BreachProofPassword(call.salt,
                                deblindedPassword, call.proofKey.version))]

\* A check of the field count that lets longer tokens through.
UpdateTokenFormatAtLeast(updateToken) ==
  LET parts == Split(updateToken)
  IN  ~(Len(parts) < 4 \/ parts[1] # <<"U", "T">>)

\* parseUpdateToken: the check of the format.
UpdateTokenFormatOk(updateToken) ==
  LET parts == Split(updateToken)
  IN  ~(Len(parts) # 4 \/ parts[1] # <<"U", "T">>)

\* parseUpdateToken, for a token that passes the check.
ParseUpdateToken(updateToken) ==
  LET parts == Split(updateToken)
  IN  [prevVersion |-> Number(parts[2]),
       nextVersion |-> Number(parts[3]),
       token |-> Base64Decode(parts[4])]

\* A comparison that rejects only older records.
VersionBelow(version, prevVersion) == version.n < prevVersion.n

\* breachProofPassword.version !== prevVersion
VersionDiffers(version, prevVersion) == ~StrictEquals(version, prevVersion)

\* A result that keeps the input record's version.
UpdatedRecordStale(breachProofPassword, deblindedPassword, nextVersion) ==
  BreachProofPassword(breachProofPassword.salt, deblindedPassword,
                      breachProofPassword.version)

\* return new BreachProofPassword(breachProofPassword.salt, deblindedPassword,
\* nextVersion) in updateBreachProofPassword
UpdatedRecord(breachProofPassword, deblindedPassword, nextVersion) ==
  BreachProofPassword(breachProofPassword.salt, deblindedPassword, nextVersion)

\* updateBreachProofPassword
UpdateBreachProofPassword(updateToken, breachProofPassword) ==
  LET base == [IdleCall EXCEPT !.pc = "done", !.op = "update",
                 !.updateToken = updateToken,
                 !.breachProofPassword = breachProofPassword]
  IN  IF ~UpdateTokenFormatOk(updateToken)
      THEN [base EXCEPT !.outcome = Rejected(InvalidUpdateToken)]
      ELSE LET parsed == ParseUpdateToken(updateToken)
           IN  IF VersionDiffers(breachProofPassword.version, parsed.prevVersion)
               THEN [base EXCEPT !.outcome = Rejected(UnexpectedVersion)]
               ELSE LET deblindedPassword ==
                          UpdateDeblindedWithToken(
                            breachProofPassword.deblindedPassword, parsed.token)
                    IN  [base EXCEPT
                           !.engine = <<UpdateCall(
                                breachProofPassword.deblindedPassword,
                                parsed.token)>>,
                           !.outcome = ResolvedRecord(UpdatedRecord(
                                breachProofPassword, deblindedPassword,
                                parsed.nextVersion))]

(***************************************************************************)
(* Inputs.                                                                 *)
(***************************************************************************)
PK1A == <<"P", "K", ".", "1", ".", "A">>
PK2B == <<"P", "K", ".", "2", ".", "B">>
PK1C == <<"P", "K", ".", "1", ".", "C">>
PKxA == <<"P", "K", ".", "x", ".", "A">>
PK1 == <<"P", "K", ".", "1">>
XK1A == <<"X", "K", ".", "1", ".", "A">>
PK1AB == <<"P", "K", ".", "1", ".", "A", ".", "B">>
EmptyText == <<>>

Descriptors == {PK1A, PK2B, PK1C, PKxA, PK1, XK1A, PK1AB, EmptyText}

RECURSIVE SeqsUpTo(_, _)
SeqsUpTo(S, n) ==
  IF n = 0 THEN {<<>>}
  ELSE LET shorter == SeqsUpTo(S, n - 1)
       IN  shorter \cup {Append(q, x) : q \in shorter, x \in S}

RegistryInputs ==
  {Null} \cup {StringArg(d) : d \in Descriptors}
         \cup {ArrayArg(a) : a \in SeqsUpTo(Descriptors, MaxKeys)}

LookupVersions == {Num(0), Num(1), Num(2), Num(3), NaN}

UT12T == <<"U", "T", ".", "1", ".", "2", ".", "T">>
UT23T == <<"U", "T", ".", "2", ".", "3", ".", "T">>
UT1xT == <<"U", "T", ".", "1", ".", "x", ".", "T">>
UTx2T == <<"U", "T", ".", "x", ".", "2", ".", "T">>
UT12 == <<"U", "T", ".", "1", ".", "2">>
XT12T == <<"X", "T", ".", "1", ".", "2", ".", "T">>
UT12TT == <<"U", "T", ".", "1", ".", "2", ".", "T", ".", "T">>
UT33T == <<"U", "T", ".", "3", ".", "3", ".", "T">>

UpdateTokens == {UT12T, UT23T, UT1xT, UTx2T, UT12, XT12T, UT12TT, UT33T}

Passwords == {"p1", "p2"}
\* The blinding secret blind draws: another one than the records' ("s1").
Secrets == {"s2"}
SaltIds == {"a", "b"}
IncludeProofs == {"true", "false", "undefined"}

\* The record the protocol yields for a password, a salt and an epoch.
ProtocolRecord(password, rnd, version) ==
  LET salt == GetRandomBytes(SALT_BYTE_LENGTH, rnd)
      blinding == Blind(DataToUint8Array(password), "s1")
  IN  BreachProofPassword(salt,
        Deblind(Transform(blinding.blindedPassword, salt, version),
                blinding.blindingSecret),
        version)

\* Records the caller holds from earlier (it owns their persistence).
CallerRecords ==
  { ProtocolRecord("p1", "a", Num(1)),
    ProtocolRecord("p1", "a", Num(2)),
    [ProtocolRecord("p1", "a", Num(1)) EXCEPT !.version = Num(3)],
    [ProtocolRecord("p1", "a", Num(1)) EXCEPT !.version = NaN] }

OrchestratorConfigs ==
  { ArrayArg(<<PK1A, PK2B>>), ArrayArg(<<PK2B, PK1A>>), StringArg(PKxA) }

Calls == 1..MaxCalls

Unbuilt == [status |-> "unbuilt", keys |-> <<>>, error |-> ""]
NoLookup == [op |-> "", version |-> NaN, result |-> Thrown("")]

(***************************************************************************)
(* The orchestrator: Pythia over a registry accepted at construction.      *)
(***************************************************************************)
Init ==
  /\ config \in OrchestratorConfigs
  /\ proofKeys = ProofKeysCtor(config)
  /\ lookup = NoLookup
  /\ calls = [c \in Calls |-> IdleCall]
  /\ store = {}

\* The blinding result kept in one place shared by the invocations.
LocalsShared(c) ==
  LET others == {d \in DOMAIN calls : d # c /\ calls[d].blinding # Undefined}
  IN  IF others = {} THEN calls[c]
      ELSE [calls[c] EXCEPT !.blinding = calls[CHOOSE d \in others : TRUE].blinding]

\* The locals of invocation c: each invocation has its own.
Locals(c) == calls[c]

Kept(call) ==
  IF call.outcome.kind = "record" THEN store \cup {call.outcome.record}
  ELSE store

Creating == {c \in DOMAIN calls : calls[c].pc = "awaiting" /\ calls[c].op = "create"}

InvokeCreate(c) ==
  /\ calls[c].pc = "idle"
  /\ Cardinality(store) + Cardinality(Creating) < MaxStore
  /\ \E password \in Passwords, rnd \in SaltIds, secret \in Secrets :
       calls' = [calls EXCEPT ![c] =
                   CreateBegin(proofKeys.keys, password, rnd, secret)]
  /\ UNCHANGED <<config, proofKeys, lookup, store>>

InvokeVerify(c) ==
  /\ calls[c].pc = "idle"
  /\ \E password \in Passwords, record \in CallerRecords \cup store,
        includeProof \in IncludeProofs, secret \in Secrets :
       calls' = [calls EXCEPT ![c] =
                   VerifyBegin(proofKeys.keys, password, record, includeProof,
                               secret)]
  /\ UNCHANGED <<config, proofKeys, lookup, store>>

RespondCreate(c) ==
  /\ calls[c].pc = "awaiting"
  /\ calls[c].op = "create"
  /\ \E response \in ServiceResponses(calls[c].request) :
       LET done == CreateEnd(Locals(c), response)
       IN  /\ calls' = [calls EXCEPT ![c] = done]
           /\ store' = Kept(done)
  /\ UNCHANGED <<config, proofKeys, lookup>>

RespondVerify(c) ==
  /\ calls[c].pc = "awaiting"
  /\ calls[c].op = "verify"
  /\ \E response \in ServiceResponses(calls[c].request) :
       calls' = [calls EXCEPT ![c] = VerifyEnd(Locals(c), response)]
  /\ UNCHANGED <<config, proofKeys, lookup, store>>

Update(c) ==
  /\ calls[c].pc = "idle"
  /\ \E updateToken \in UpdateTokens, record \in CallerRecords \cup store :
       LET done == UpdateBreachProofPassword(updateToken, record)
       IN  /\ Cardinality(Kept(done)) <= MaxStore
           /\ calls' = [calls EXCEPT ![c] = done]
           /\ store' = Kept(done)
  /\ UNCHANGED <<config, proofKeys, lookup>>

\* The caller takes the result; the orchestrator keeps nothing of the call.
Return(c) ==
  /\ calls[c].pc = "done"
  /\ calls' = [calls EXCEPT ![c] = IdleCall]
  /\ UNCHANGED <<config, proofKeys, lookup, store>>

Next ==
  \E c \in Calls :
    \/ InvokeCreate(c)
    \/ InvokeVerify(c)
    \/ RespondCreate(c)
    \/ RespondVerify(c)
    \/ Update(c)
    \/ Return(c)

Spec == Init /\ [][Next]_vars

(***************************************************************************)
(* The registry alone: construction from any input, then lookups.          *)
(***************************************************************************)
InitRegistry ==
  /\ config = Null
  /\ proofKeys = Unbuilt
  /\ lookup = NoLookup
  /\ calls = [c \in Calls |-> IdleCall]
  /\ store = {}

Construct ==
  /\ proofKeys.status = "unbuilt"
  /\ \E arg \in RegistryInputs :
       /\ config' = arg
       /\ proofKeys' = ProofKeysCtor(arg)
  /\ UNCHANGED <<lookup, calls, store>>

LookupCurrent ==
  /\ proofKeys.status = "built"
  /\ lookup' = [op |-> "currentKey", version |-> NaN,
                result |-> CurrentKey(proofKeys.keys)]
  /\ UNCHANGED <<config, proofKeys, calls, store>>

LookupVersion ==
  /\ proofKeys.status = "built"
  /\ \E version \in LookupVersions :
       lookup' = [op |-> "proofKey", version |-> version,
                  result |-> ProofKey(proofKeys.keys, version)]
  /\ UNCHANGED <<config, proofKeys, calls, store>>

NextRegistry == Construct \/ LookupCurrent \/ LookupVersion

SpecRegistry == InitRegistry /\ [][NextRegistry]_vars

(***************************************************************************)
(* Properties.                                                             *)
(***************************************************************************)
Done(c) == calls[c].pc = "done"

\* The call got an answer from the service, of the given kinds.
Answered(c, modes) ==
  /\ Done(c)
  /\ calls[c].response # Undefined
  /\ calls[c].response.mode \in modes

\* r is the record createBreachProofPassword(password) is to return under
\* this registry: some salt, the current key's version, the protocol's value.
IsCreatedRecord(r, password) ==
  \E rnd \in SaltIds :
    r = ProtocolRecord(password, rnd, CurrentKey(proofKeys.keys).value.version)

\* C1: round trip.  With an honest service, createBreachProofPassword(P)
\* returns a record, and verifyBreachProofPassword(P, R) on the record R of
\* createBreachProofPassword(P) returns true, whatever includeProof is.
C1_RoundTrip ==
  \A c \in Calls :
    Answered(c, {"honest"}) =>
      /\ calls[c].op = "create" =>
           /\ calls[c].outcome.kind = "record"
           /\ IsCreatedRecord(calls[c].outcome.record, calls[c].password)
      /\ (calls[c].op = "verify"
          /\ IsCreatedRecord(calls[c].breachProofPassword, calls[c].password)) =>
           calls[c].outcome.result = "true"

\* C2: negative case.  With an honest service, verifyBreachProofPassword(P', R)
\* on the record R of createBreachProofPassword(P), P # P', completes with
\* the value false and never with an error.
C2_MismatchIsFalse ==
  \A c \in Calls :
    (/\ Answered(c, {"honest"})
     /\ calls[c].op = "verify"
     /\ \E p \in Passwords \ {calls[c].password} :
          IsCreatedRecord(calls[c].breachProofPassword, p)) =>
      /\ calls[c].outcome.kind = "boolean"
      /\ calls[c].outcome.result = "false"

\* The call checks the proof: every create, and a verify with includeProof true.
ChecksProof(c) ==
  \/ calls[c].op = "create"
  \/ calls[c].op = "verify" /\ calls[c].includeProof = "true"

\* C3: tamper detection.  When a proof field of the service's response is
\* corrupted, create, and verify with includeProof = true, fail with the
\* proof-verification error: no record, neither true nor false, whether or
\* not the password matches.
C3_TamperDetected ==
  \A c \in Calls :
    (Answered(c, {"corruptedC", "corruptedU"}) /\ ChecksProof(c)) =>
      calls[c].outcome = Rejected(ProofVerificationFailed)

\* C3 witness: a verify with includeProof = true of the matching password,
\* answered with a corrupted proof, has failed with the proof error.
C3_Witness ==
  \E c \in Calls :
    /\ Answered(c, {"corruptedC", "corruptedU"})
    /\ calls[c].op = "verify"
    /\ calls[c].includeProof = "true"
    /\ calls[c].breachProofPassword.deblindedPassword.pw
         = DataToUint8Array(calls[c].password)
    /\ calls[c].outcome.error = ProofVerificationFailed

\* The number of '.' in a text, and whether its first field is the tag <<a, b>>.
DotCount(text) == Cardinality({i \in 1..Len(text) : text[i] = "."})

TagIs(text, a, b) ==
  /\ Len(text) >= 2
  /\ text[1] = a
  /\ text[2] = b
  /\ (Len(text) = 2 \/ text[3] = ".")

WellFormedToken(text) == DotCount(text) = 3 /\ TagIs(text, "U", "T")

UpdateDone(c) == Done(c) /\ calls[c].op = "update"

\* C4: version binding.  updateBreachProofPassword(T, R) with a well-formed
\* token T and R.version different from T.prevVersion fails with the
\* version-mismatch error, returns no record and does not invoke
\* updateDeblindedWithToken.
C4_VersionBinding ==
  \A c \in Calls :
    (/\ UpdateDone(c)
     /\ WellFormedToken(calls[c].updateToken)
     /\ calls[c].breachProofPassword.version
          # ParseUpdateToken(calls[c].updateToken).prevVersion) =>
      /\ calls[c].outcome = Rejected(UnexpectedVersion)
      /\ calls[c].engine = <<>>

\* C4 witness: an update of a record of epoch 3 with a token for epoch 1 has
\* failed.
C4_Witness ==
  \E c \in Calls :
    /\ UpdateDone(c)
    /\ calls[c].updateToken = UT12T
    /\ calls[c].breachProofPassword.version = Num(3)
    /\ calls[c].outcome.kind = "error"

\* C5: update preserves salt.  A successful updateBreachProofPassword(T, R)
\* returns a new record with R's salt, T.nextVersion as version and
\* updateDeblindedWithToken(R.deblindedPassword, T.token) as value; R itself
\* is as it was.
C5_UpdateResult ==
  \A c \in Calls :
    (UpdateDone(c) /\ calls[c].outcome.kind = "record") =>
      LET R == calls[c].breachProofPassword
          T == ParseUpdateToken(calls[c].updateToken)
          new == calls[c].outcome.record
      IN  /\ new.salt = R.salt
          /\ new.version = T.nextVersion
          /\ new.deblindedPassword
               = UpdateDeblindedWithToken(R.deblindedPassword, T.token)
          /\ new # R
          /\ R \in CallerRecords \cup store
          /\ new \in store

\* C5 witness: the token UT.1.2.T has taken a record of epoch 1 to epoch 2.
C5_Witness ==
  \E c \in Calls :
    /\ UpdateDone(c)
    /\ calls[c].updateToken = UT12T
    /\ calls[c].breachProofPassword.version = Num(1)
    /\ calls[c].outcome.kind = "record"
    /\ calls[c].outcome.record.version = Num(2)

\* C8: update-token format rejection.  updateBreachProofPassword with a
\* token that has not exactly 4 dot-separated fields, or whose first field is
\* not UT, fails with the format error for every record (also one whose
\* version would not match), invokes no Crypto Engine operation and returns
\* no record.
C8_FormatRejected ==
  \A c \in Calls :
    (UpdateDone(c) /\ ~WellFormedToken(calls[c].updateToken)) =>
      /\ calls[c].outcome = Rejected(InvalidUpdateToken)
      /\ calls[c].engine = <<>>

\* C8 witness: a token of 5 fields on a record of another epoch has failed
\* with the format error, not the version error.
C8_Witness ==
  \E c \in Calls :
    /\ UpdateDone(c)
    /\ calls[c].updateToken = UT12TT
    /\ calls[c].breachProofPassword.version = Num(3)
    /\ calls[c].outcome.error = InvalidUpdateToken

\* The epochs a key was ever issued for: those of the registry, those the
\* service holds, and those a well-formed token rotates to.
KeyEpochs ==
  {proofKeys.keys[i].version.n : i \in {j \in 1..Len(proofKeys.keys) :
                                         ~proofKeys.keys[j].version.isNaN}}
  \cup ServiceEpochs
  \cup {ParseUpdateToken(t).nextVersion.n :
          t \in {u \in UpdateTokens : /\ WellFormedToken(u)
                                      /\ ~ParseUpdateToken(u).nextVersion.isNaN}}

\* C9: record version invariant.  The version of every record produced by
\* create or by a successful update is the epoch of a proof key that exists
\* or existed: a number, never NaN.
C9_VersionIsKeyEpoch ==
  \A r \in store : ~r.version.isNaN /\ r.version.n \in KeyEpochs

RotationTokens ==
  UpdateTokens
  \cup { <<"U", "T", ".", d, ".", e, ".", "T">> :
           d \in {"0", "1", "2", "3", "4"}, e \in {"0", "1", "2", "3", "4"} }

\* C10: no terminal state.  For every record produced there is an update
\* token whose application to it succeeds.
C10_NoTerminalState ==
  \A r \in store :
    \E t \in RotationTokens :
      UpdateBreachProofPassword(t, r).outcome.kind = "record"

(***************************************************************************)
(* Properties of the registry (under SpecRegistry).                        *)
(***************************************************************************)
\* The descriptors an input stands for: a lone string is a list of one.
Items(arg) ==
  IF arg.kind = "array" THEN arg.items
  ELSE IF arg.kind = "string" THEN <<arg.text>>
  ELSE <<>>

BadDescriptor(text) == DotCount(text) # 2 \/ ~TagIs(text, "P", "K")

\* C6: registry lookup.  currentKey() returns the key parsed from position 0
\* of the list; keyForVersion(v) returns the first key in list order whose
\* version equals v (the same on every call: the answer depends on the list
\* and v alone, and the list stays as parsed) and fails with the
\* unknown-version error when no key has version v.
C6_RegistryLookup ==
  proofKeys.status = "built" =>
    LET items == Items(config)
        keys == [i \in 1..Len(items) |-> ParseProofKey(items[i])]
        v == lookup.version
        matches == {i \in 1..Len(items) : ~v.isNaN /\ keys[i].version = v}
    IN  /\ proofKeys.keys = keys
        /\ lookup.op = "currentKey" => lookup.result = Returned(keys[1])
        /\ lookup.op = "proofKey" =>
             IF matches = {}
             THEN lookup.result = Thrown(NoProofKeyOfVersion)
             ELSE \E i \in matches :
                    /\ \A j \in matches : i <= j
                    /\ lookup.result = Returned(keys[i])

\* C6 witness: of two keys of version 1, the lookup of version 1 has
\* returned the first.
C6_Witness ==
  /\ config = ArrayArg(<<PK1C, PK1A>>)
  /\ lookup.op = "proofKey"
  /\ lookup.version = Num(1)
  /\ lookup.result.ok
  /\ lookup.result.value.data = Base64Decode(<<"C">>)

\* C7: registry construction fails, and yields no registry, when the input
\* is absent or an empty list, or when any descriptor of the list has not
\* exactly 3 dot-separated fields or does not start with the tag PK.
C7_ConstructionFails ==
  (/\ proofKeys.status # "unbuilt"
   /\ \/ config.kind = "null"
      \/ config.kind = "array" /\ Len(config.items) = 0
      \/ \E i \in 1..Len(Items(config)) : BadDescriptor(Items(config)[i])) =>
    /\ proofKeys.status = "failed"
    /\ proofKeys.keys = <<>>

\* C7 witness: a list whose second descriptor has the wrong tag was rejected.
C7_Witness ==
  /\ config = ArrayArg(<<PK1A, XK1A>>)
  /\ proofKeys.status = "failed"

\* ---------------------------------------------------------------------
\* Properties of the calls to the service and to the engine.

\* The engine functions call c has invoked, in order.
EngineFns(c) == [i \in DOMAIN calls[c].engine |-> calls[c].engine[i].fn]

Invoked(c, fn) == \E i \in DOMAIN calls[c].engine : calls[c].engine[i].fn = fn

\* C11: a createBreachProofPassword or verifyBreachProofPassword call sends
\* at most one request to the service and never sends it again; when the
\* request fails the call fails with that error, without deblind and without
\* a record or a boolean; updateBreachProofPassword sends no request.
C11_OneRequest ==
  \A c \in Calls :
    /\ calls[c].sent <= 1
    /\ calls[c].op = "update" =>
         calls[c].sent = 0 /\ calls[c].request = Undefined
    /\ (calls[c].response # Undefined /\ calls[c].response.mode = "failure") =>
         /\ Done(c)
         /\ calls[c].outcome = Rejected(TransportFailure)
         /\ ~Invoked(c, "deblind")

C11_Witness ==
  \E c \in Calls :
    /\ Answered(c, {"failure"})
    /\ calls[c].op = "verify"
    /\ calls[c].sent = 1
    /\ calls[c].outcome.kind = "error"

\* What the engine's verify returns on the arguments of a logged invocation.
VerifyResult(e) ==
  Verify(e.transformedPassword, e.blindedPassword, e.salt, e.proofKey,
         e.valueC, e.valueU)

\* The call is one that has to check the proof: create, or verify with
\* includeProof true.
MustCheckProof(c) ==
  \/ calls[c].op = "create"
  \/ calls[c].op = "verify" /\ calls[c].includeProof = "true"

\* C13: in createBreachProofPassword and in verifyBreachProofPassword with
\* includeProof true, deblind is invoked only right after the engine's verify
\* has returned true for the same transformed password in the same call;
\* when verify returns false, or the answer has no proof, deblind is never
\* invoked.
C13_DeblindAfterVerify ==
  \A c \in Calls :
    MustCheckProof(c) =>
      /\ \A i \in DOMAIN calls[c].engine :
           calls[c].engine[i].fn = "deblind" =>
             /\ i > 1
             /\ calls[c].engine[i - 1].fn = "verify"
             /\ calls[c].engine[i - 1].transformedPassword =
                  calls[c].engine[i].transformedPassword
             /\ VerifyResult(calls[c].engine[i - 1])
      /\ (\E i \in DOMAIN calls[c].engine :
            /\ calls[c].engine[i].fn = "verify"
            /\ ~VerifyResult(calls[c].engine[i])) => ~Invoked(c, "deblind")
      /\ (Answered(c, {"honest", "corruptedC", "corruptedU", "noProof"})
          /\ calls[c].response.proof = Undefined) => ~Invoked(c, "deblind")

\* A verify call with includeProof true got a corrupted proof: the engine's
\* verify ran, returned false, and deblind did not run.
C13_Witness ==
  \E c \in Calls :
    /\ Answered(c, {"corruptedC"})
    /\ calls[c].op = "verify"
    /\ calls[c].includeProof = "true"
    /\ EngineFns(c) = <<"blind", "verify">>
    /\ ~VerifyResult(calls[c].engine[2])

\* The registry entry whose key call c has to check the proof against: the
\* current key in create, the key of the record's version in verify.
EntryFor(c) ==
  IF calls[c].op = "create" THEN CurrentKey(proofKeys.keys).value
  ELSE ProofKey(proofKeys.keys, calls[c].breachProofPassword.version).value

\* C14: the proofKey argument handed to the engine's verify is the decoded
\* key bytes of the registry entry (the current key in create, the entry of
\* the record's version in verify); it is never absent or undefined.
C14_ProofKeyBytes ==
  \A c \in Calls :
    \A i \in DOMAIN calls[c].engine :
      calls[c].engine[i].fn = "verify" =>
        /\ calls[c].engine[i].proofKey # Undefined
        /\ calls[c].engine[i].proofKey = EntryFor(c).data

\* C15: verifyBreachProofPassword sends version = record.version and
\* salt = record.salt, and checks the proof against the key of the registry
\* entry of record.version, also when that is not the current key's version;
\* the current key is not what verify uses.
C15_RecordEpoch ==
  \A c \in Calls :
    calls[c].op = "verify" =>
      /\ calls[c].request # Undefined =>
           /\ calls[c].request.version = calls[c].breachProofPassword.version
           /\ calls[c].request.salt = calls[c].breachProofPassword.salt
      /\ \A i \in DOMAIN calls[c].engine :
           calls[c].engine[i].fn = "verify" =>
             /\ calls[c].engine[i].salt = calls[c].breachProofPassword.salt
             /\ calls[c].engine[i].proofKey =
                  ProofKey(proofKeys.keys,
                           calls[c].breachProofPassword.version).value.data

\* The part of C15 on the request and on the entry looked up, without the
\* key bytes handed to the engine.
C15_RequestAndEntry ==
  \A c \in Calls :
    (calls[c].op = "verify" /\ calls[c].request # Undefined) =>
      /\ calls[c].request.version = calls[c].breachProofPassword.version
      /\ calls[c].request.salt = calls[c].breachProofPassword.salt
      /\ calls[c].proofKey =
           ProofKey(proofKeys.keys, calls[c].breachProofPassword.version).value

ProducedBy(updateToken, result) ==
  /\ result \in store
  /\ \E record \in CallerRecords \cup store :
       UpdateBreachProofPassword(updateToken, record).outcome =
         ResolvedRecord(result)

\* The update call c applies its token to a record that an update with the
\* same token returned.
Replays(c) ==
  /\ UpdateDone(c)
  /\ WellFormedToken(calls[c].updateToken)
  /\ ProducedBy(calls[c].updateToken, calls[c].breachProofPassword)

\* C17 as stated: after updateBreachProofPassword(T, R) has returned R',
\* applying the same T to R' fails with the version-mismatch error, for
\* every well-formed token T.
C17_ReplayRejected ==
  \A c \in Calls :
    Replays(c) => calls[c].outcome = Rejected(UnexpectedVersion)

\* C17: after updateBreachProofPassword(T, R) has returned R', applying the
\* same T to R' fails with the version-mismatch error, for every well-formed
\* token T whose nextVersion is not strictly equal to its prevVersion.
C17_ReplayRejectedUnlessSameVersion ==
  \A c \in Calls :
    (Replays(c)
     /\ ~StrictEquals(ParseUpdateToken(calls[c].updateToken).nextVersion,
                      ParseUpdateToken(calls[c].updateToken).prevVersion)) =>
      calls[c].outcome = Rejected(UnexpectedVersion)

\* The token 'UT.1.2.T' is applied again to the record it produced, and the
\* call fails with the version-mismatch error.
C17_Witness ==
  \E c \in Calls :
    /\ Replays(c)
    /\ calls[c].updateToken = UT12T
    /\ calls[c].breachProofPassword.version = Num(2)
    /\ calls[c].outcome = Rejected(UnexpectedVersion)

\* The places of the engine log of call c that hold an invocation of fn.
Invocations(c, fn) ==
  {i \in DOMAIN calls[c].engine : calls[c].engine[i].fn = fn}

\* C18: the blinding secret and the raw password stay in the call.  A request
\* of create or verify has the fields blindedPassword, salt, version and
\* includeProof and no other, its blindedPassword being the one blind
\* returned; the call invokes blind once, and the blinding secret of that
\* invocation goes to the call's deblind and to nothing else.
C18_SecretStaysInCall ==
  \A c \in Calls :
    calls[c].op \in {"create", "verify"} =>
      /\ Cardinality(Invocations(c, "blind")) = 1
      /\ calls[c].engine[1] = BlindCall(DataToUint8Array(calls[c].password))
      /\ calls[c].blinding =
           Blind(DataToUint8Array(calls[c].password),
                 calls[c].blinding.blindingSecret)
      /\ calls[c].request # Undefined =>
           /\ DOMAIN calls[c].request =
                {"blindedPassword", "salt", "version", "includeProof"}
           /\ calls[c].request.blindedPassword =
                calls[c].blinding.blindedPassword
      /\ Cardinality(Invocations(c, "deblind")) <= 1
      /\ \A i \in DOMAIN calls[c].engine :
           /\ calls[c].engine[i].fn = "deblind" =>
                calls[c].engine[i].blindingSecret =
                  calls[c].blinding.blindingSecret
           /\ "blindingSecret" \in DOMAIN calls[c].engine[i] =>
                calls[c].engine[i].fn = "deblind"

\* A verify call has sent its request, got the answer and deblinded it with
\* the secret of its blind invocation.
C18_Witness ==
  \E c \in Calls :
    /\ calls[c].op = "verify"
    /\ Answered(c, {"honest"})
    /\ DOMAIN calls[c].request =
         {"blindedPassword", "salt", "version", "includeProof"}
    /\ EngineFns(c) = <<"blind", "deblind">>
    /\ calls[c].engine[2].blindingSecret = "s2"

\* No key of the registry has this version: the version is a number and no
\* key has that number (a version that is not a number matches nothing).
NoKeyMatches(version) ==
  \A i \in 1..Len(proofKeys.keys) :
    \/ version.isNaN
    \/ proofKeys.keys[i].version.isNaN
    \/ proofKeys.keys[i].version.n # version.n

\* C19: when the record's version matches no key of the registry,
\* verifyBreachProofPassword fails with the unknown-version error and sends
\* no request to the service, whatever includeProof is, also when it is
\* false or omitted and the key would not be used.
C19_UnknownVersionBeforeRequest ==
  \A c \in Calls :
    (calls[c].op = "verify"
     /\ NoKeyMatches(calls[c].breachProofPassword.version)) =>
      /\ Done(c)
      /\ calls[c].outcome = Rejected(NoProofKeyOfVersion)
      /\ calls[c].sent = 0
      /\ calls[c].request = Undefined
      /\ calls[c].response = Undefined

\* A verify call without includeProof on a record of version 3, under a
\* registry of versions 1 and 2, has failed and sent nothing.
C19_Witness ==
  \E c \in Calls :
    /\ calls[c].op = "verify"
    /\ calls[c].includeProof = "undefined"
    /\ calls[c].breachProofPassword.version = Num(3)
    /\ config = ArrayArg(<<PK1A, PK2B>>)
    /\ calls[c].outcome = Rejected(NoProofKeyOfVersion)
    /\ calls[c].sent = 0

\* C20: for every registry that construction accepts, the lookup of the
\* current key's version succeeds and returns the current key.
C20_CurrentKeyFound ==
  (/\ proofKeys.status = "built"
   /\ lookup.op = "proofKey"
   /\ lookup.version = CurrentKey(proofKeys.keys).value.version) =>
    lookup.result = CurrentKey(proofKeys.keys)

(***************************************************************************)
(* Invocations in flight together on one orchestrator: a call suspends at  *)
(* its await and the others run meanwhile.                                 *)
(***************************************************************************)
ConcurrentCalls == 1..MaxConcurrent
ConcurrentRecords == {ProtocolRecord("p1", "a", Num(1))}
ConcurrentIncludeProofs == {"true", "undefined"}
ConcurrentTokens == {UT12T}
ConcurrentSecrets == {"s1", "s2"}

InitConcurrent ==
  /\ config = ArrayArg(<<PK1A, PK2B>>)
  /\ proofKeys = ProofKeysCtor(config)
  /\ lookup = NoLookup
  /\ calls = [c \in ConcurrentCalls |-> IdleCall]
  /\ store = {}

ConcurrentCreate(c) ==
  /\ calls[c].pc = "idle"
  /\ \E password \in Passwords, secret \in ConcurrentSecrets :
       calls' = [calls EXCEPT ![c] =
                   CreateBegin(proofKeys.keys, password, "a", secret)]
  /\ UNCHANGED <<config, proofKeys, lookup, store>>

ConcurrentVerify(c) ==
  /\ calls[c].pc = "idle"
  /\ \E password \in Passwords, record \in ConcurrentRecords,
        includeProof \in ConcurrentIncludeProofs,
        secret \in ConcurrentSecrets :
       calls' = [calls EXCEPT ![c] =
                   VerifyBegin(proofKeys.keys, password, record, includeProof,
                               secret)]
  /\ UNCHANGED <<config, proofKeys, lookup, store>>

ConcurrentUpdate(c) ==
  /\ calls[c].pc = "idle"
  /\ \E updateToken \in ConcurrentTokens,
        record \in ConcurrentRecords \cup store :
       LET done == UpdateBreachProofPassword(updateToken, record)
       IN  /\ calls' = [calls EXCEPT ![c] = done]
           /\ store' = Kept(done)
  /\ UNCHANGED <<config, proofKeys, lookup>>

NextConcurrent ==
  \E c \in ConcurrentCalls :
    \/ ConcurrentCreate(c)
    \/ ConcurrentVerify(c)
    \/ ConcurrentUpdate(c)
    \/ RespondCreate(c)
    \/ RespondVerify(c)
    \/ Return(c)

SpecConcurrent == InitConcurrent /\ [][NextConcurrent]_vars

\* The service's answer of the given kind to a request.
ResponseOfMode(request, mode) ==
  CHOOSE response \in ServiceResponses(request) : response.mode = mode

\* The outcome of the call with these arguments, random draws and kind of
\* answer when it is the only call of the orchestrator.
Alone(call) ==
  IF call.op = "update"
  THEN UpdateBreachProofPassword(call.updateToken,
                                 call.breachProofPassword).outcome
  ELSE LET begun ==
             IF call.op = "create"
             THEN CreateBegin(proofKeys.keys, call.password, call.salt.rnd,
                              call.blinding.blindingSecret)
             ELSE VerifyBegin(proofKeys.keys, call.password,
                              call.breachProofPassword, call.includeProof,
                              call.blinding.blindingSecret)
           response == ResponseOfMode(begun.request, call.response.mode)
       IN  IF begun.pc = "done" THEN begun.outcome
           ELSE IF call.op = "create" THEN CreateEnd(begun, response).outcome
           ELSE VerifyEnd(begun, response).outcome

\* The secret of the blind invocation that blinded the request call c sent.
OwnSecret(c) == calls[c].request.blindedPassword.blind

\* C12: with create, verify and update calls in flight together in any
\* interleaving, every call ends as it ends alone; a call deblinds only the
\* answer to its own request, with its own blinding secret; the registry
\* stays what construction made it.
C12_Independent ==
  /\ proofKeys = ProofKeysCtor(config)
  /\ \A c \in DOMAIN calls :
       Done(c) =>
         /\ calls[c].outcome = Alone(calls[c])
         /\ \A i \in DOMAIN calls[c].engine :
              calls[c].engine[i].fn = "deblind" =>
                /\ calls[c].engine[i].transformedPassword =
                     ResponseOfMode(calls[c].request, calls[c].response.mode)
                       .transformedPassword
                /\ calls[c].engine[i].blindingSecret = OwnSecret(c)

\* Two verify calls were awaiting together with different secrets; the one
\* that began first has deblinded its answer while the other still awaits.
C12_Witness ==
  \E c, d \in DOMAIN calls :
    /\ c # d
    /\ Done(c) /\ calls[c].op = "verify" /\ Invoked(c, "deblind")
    /\ calls[c].outcome = ResolvedBoolean(TRUE)
    /\ calls[d].pc = "awaiting"
    /\ calls[d].blinding.blindingSecret # calls[c].blinding.blindingSecret

====
